---- MODULE Spec2Model ----
\* Ten-pin bowling score tracker: the scoring engine (GameEngine.ts) and the
\* pin constraint validator (PinPhysics.ts) as a state machine.
\*
\* Indices follow the source: frames are indexed 0..9, roll indices start at
\* 0.  Arrays are TLA+ sequences, so the roll at index r of a frame is
\* rolls[r + 1] and pin number n (1..10) is pins[n], the array slot n - 1.
EXTENDS Integers, Sequences, FiniteSets

VARIABLES
    session,    \* GameEngine.currentSession: Null or [id, mode, league, frames,
                \* startTime]
    lastError,  \* outcome of the last engine call: "none" or the error thrown
    k,          \* the driver's game parameter: 0 free play, 1..9 spares of
                \* (k, 10-k), 10 the perfect game
    call        \* traced play: the last engine call, its arguments and result

vars == <<session, lastError, k, call>>

----------------------------------------------------------------------------
\* Program constants

NumFrames == 10

NumPins == 10

\* Bounds of the model

\* free play: most rolls the session may hold (the code has no limit)
MaxTotal == 3

\* play in the last two frames: most rolls the session may hold
MaxTail == 4

\* traced play: most rolls the session may hold
MaxTraced == 2

\* traced play in the last two frames: most rolls the session may hold
MaxTracedTail == 3

\* play with pre-validation: most rolls the session may hold
MaxPreValidated == 2

\* rolls pushed onto the session object from outside the engine
MaxManual == 4

\* validator runs: the previous roll knocks pins numbered up to this
MaxPreviousPin == 7

----------------------------------------------------------------------------
\* Values

Null == [id |-> "null", mode |-> "null", league |-> "null", frames |-> <<>>,
         startTime |-> "null"]

\* the optional league argument left out
NoLeague == "undefined"

Undefined == [pins |-> <<>>, pinsKnocked |-> -1]

PinNumbers == 1..NumPins

\* the pin array whose knocked pins are exactly the set S
Arr(S) == [n \in PinNumbers |-> IF n \in S THEN "knocked" ELSE "standing"]

Knocked(pins) == {n \in DOMAIN pins : pins[n] = "knocked"}

AllStanding == Arr({})

----------------------------------------------------------------------------
\* PinPhysics.ts

PIN_DEPENDENCIES ==
    <<  <<>>,
        << <<1>> >>,
        << <<1>> >>,
        << <<1>>, <<2>> >>,
        << <<1>> >>,
        << <<1>>, <<3>> >>,
        << <<4>> >>,
        << <<5>> >>,
        << <<6>> >>,
        << <<6>> >>  >>

\* dependencyGroup.every(depPin => pins[depPin - 1] === 'knocked')
groupSatisfied(pins, dependencyGroup) ==
    \A j \in DOMAIN dependencyGroup : pins[dependencyGroup[j]] = "knocked"

\* mutant: every dependency group must be satisfied
hasValidPathEvery(pins, pinNumber) ==
    \A g \in DOMAIN PIN_DEPENDENCIES[pinNumber] :
        groupSatisfied(pins, PIN_DEPENDENCIES[pinNumber][g])

hasValidPath(pins, pinNumber) ==
    \E g \in DOMAIN PIN_DEPENDENCIES[pinNumber] :
        groupSatisfied(pins, PIN_DEPENDENCIES[pinNumber][g])

\* the loop "for (i = 0; i < 10; i++)" visits the pins in this order
PinOrder == [n \in PinNumbers |-> n]

\* mutant: the pins of the second row need no pin in front of them
physicsViolationBackRowsOnly(pins, pinNumber) ==
    /\ pinNumber > 3
    /\ pins[pinNumber] = "knocked"
    /\ ~hasValidPath(pins, pinNumber)
    /\ Len(PIN_DEPENDENCIES[pinNumber]) > 0

\* a knocked pin with dependency groups, none of them satisfied
physicsViolation(pins, pinNumber) ==
    /\ pins[pinNumber] = "knocked"
    /\ ~hasValidPath(pins, pinNumber)
    /\ Len(PIN_DEPENDENCIES[pinNumber]) > 0

validatePhysics(pins) ==
    LET bad == SelectSeq(PinOrder, LAMBDA n : physicsViolation(pins, n))
    IN  [isValid     |-> Len(bad) = 0,
         errors      |-> [i \in DOMAIN bad |-> <<"dependency", bad[i]>>],
         invalidPins |-> bad]

getStartingPinState(previousRoll) ==
    IF previousRoll = Undefined THEN AllStanding ELSE previousRoll.pins

\* mutant: the combined state forgets the pins knocked before
combinePinStatesCurrentOnly(startingPins, currentRoll) ==
    [n \in PinNumbers |->
        IF currentRoll[n] = "knocked" THEN "knocked" ELSE "standing"]

combinePinStates(startingPins, currentRoll) ==
    [n \in PinNumbers |->
        IF startingPins[n] = "knocked" \/ currentRoll[n] = "knocked"
        THEN "knocked" ELSE "standing"]

\* mutant: a pin knocked before is never reported
alreadyKnockedNever(pins, startingPins, pinNumber) == FALSE

\* lines 70-75: the pin is knocked now and was knocked before
alreadyKnocked(pins, startingPins, pinNumber) ==
    pins[pinNumber] = "knocked" /\ startingPins[pinNumber] = "knocked"

\* [...new Set(xs)]: first occurrences, in order
RECURSIVE dedup(_)
dedup(xs) ==
    IF xs = <<>> THEN <<>>
    ELSE LET init == dedup(SubSeq(xs, 1, Len(xs) - 1))
             last == xs[Len(xs)]
         IN  IF \E i \in DOMAIN init : init[i] = last
             THEN init ELSE Append(init, last)

validatePinCombination(pins, previousRoll) ==
    IF Len(pins) # NumPins
    THEN [isValid |-> FALSE, errors |-> << <<"length", 0>> >>, invalidPins |-> <<>>]
    ELSE
        LET startingPins  == getStartingPinState(previousRoll)
            already       == SelectSeq(PinOrder,
                                LAMBDA n : alreadyKnocked(pins, startingPins, n))
            combinedState == combinePinStates(startingPins, pins)
            physicsResult == validatePhysics(combinedState)
            errors == [i \in DOMAIN already |-> <<"already", already[i]>>]
                        \o physicsResult.errors
        IN  [isValid     |-> Len(errors) = 0,
             errors      |-> errors,
             invalidPins |-> dedup(already \o physicsResult.invalidPins)]

\* mutant: only arrays shorter than 10 are refused
isPhysicallyPossibleShortOnly(pins) ==
    IF Len(pins) < NumPins THEN FALSE ELSE validatePhysics(pins).isValid

isPhysicallyPossible(pins) ==
    IF Len(pins) # NumPins THEN FALSE ELSE validatePhysics(pins).isValid

\* mutant: only the pins failing the dependency check are returned
getInvalidPinsPhysicsOnly(pins, previousRoll) ==
    IF Len(pins) # NumPins THEN <<>>
    ELSE validatePhysics(combinePinStates(getStartingPinState(previousRoll),
                                          pins)).invalidPins

getInvalidPins(pins, previousRoll) ==
    validatePinCombination(pins, previousRoll).invalidPins

----------------------------------------------------------------------------
\* GameEngine.ts: startNewGame

emptyFrame(i) ==
    [frameNumber |-> i + 1, rolls |-> <<>>, isStrike |-> FALSE, isSpare |-> FALSE]

newFrames == [i \in 0..(NumFrames - 1) |-> emptyFrame(i)]

\* the identifier and the start time stand for the values generated at the
\* call: nothing in the engine reads them
startNewGame(mode, league) ==
    [id |-> "generated", mode |-> mode, league |-> league, frames |-> newFrames,
     startTime |-> "now"]

----------------------------------------------------------------------------
\* GameEngine.ts: recordRoll

\* pins.filter(pin => pin === 'knocked').length
\* mutant: the filter keeps the standing entries
countKnockedStanding(pins) ==
    Cardinality({n \in DOMAIN pins : pins[n] = "standing"})

countKnocked(pins) == Cardinality(Knocked(pins))

\* frame.rolls[rollIndex - 1], undefined when rollIndex is 0 or past the end
rollBefore(frame, rollIndex) ==
    IF rollIndex > 0 /\ rollIndex <= Len(frame.rolls)
    THEN frame.rolls[rollIndex] ELSE Undefined

\* mutant: frame 10 resets the rack after a strike only
effectivePreviousRollNoSpareReset(frame, frameIndex, rollIndex) ==
    LET previousRoll == rollBefore(frame, rollIndex)
    IN  IF frameIndex = 9 /\ previousRoll # Undefined
        THEN IF previousRoll.pinsKnocked = 10 THEN Undefined
             ELSE previousRoll
        ELSE previousRoll

\* the previous roll handed to the validator (frame 10 resets the rack)
effectivePreviousRoll(frame, frameIndex, rollIndex) ==
    LET previousRoll == rollBefore(frame, rollIndex)
    IN  IF frameIndex = 9 /\ previousRoll # Undefined
        THEN IF previousRoll.pinsKnocked = 10 THEN Undefined
             ELSE IF /\ rollIndex = 2
                     /\ Len(frame.rolls) >= 2
                     /\ frame.rolls[1].pinsKnocked + frame.rolls[2].pinsKnocked = 10
                  THEN Undefined
                  ELSE previousRoll
        ELSE previousRoll

\* mutant: the roll index is compared with the roll count before the pins
\* are validated
recordRollErrorSequencingFirst(s, frameIndex, rollIndex, pins) ==
    IF s = Null THEN "NoSession"
    ELSE IF frameIndex < 0 \/ frameIndex >= 10 THEN "InvalidFrame"
    ELSE IF rollIndex < 0 THEN "InvalidRollIndex"
    ELSE IF Len(pins) # 10 THEN "InvalidPins"
    ELSE LET frame == s.frames[frameIndex]
         IN  IF rollIndex > Len(frame.rolls) THEN "Sequencing"
             ELSE IF ~validatePinCombination(pins,
                        effectivePreviousRoll(frame, frameIndex, rollIndex)).isValid
             THEN "Physics"
             ELSE "none"

\* mutant: the length of the pins array is left to the validator
recordRollErrorNoLengthCheck(s, frameIndex, rollIndex, pins) ==
    IF s = Null THEN "NoSession"
    ELSE IF frameIndex < 0 \/ frameIndex >= 10 THEN "InvalidFrame"
    ELSE IF rollIndex < 0 THEN "InvalidRollIndex"
    ELSE LET frame == s.frames[frameIndex]
         IN  IF ~validatePinCombination(pins,
                    effectivePreviousRoll(frame, frameIndex, rollIndex)).isValid
             THEN "Physics"
             ELSE IF rollIndex > Len(frame.rolls) THEN "Sequencing"
             ELSE "none"

\* mutant: a frame is open to rolls only once the frame before it holds one
recordRollErrorFramesInOrder(s, frameIndex, rollIndex, pins) ==
    IF s = Null THEN "NoSession"
    ELSE IF frameIndex < 0 \/ frameIndex >= 10 THEN "InvalidFrame"
    ELSE IF rollIndex < 0 THEN "InvalidRollIndex"
    ELSE IF Len(pins) # 10 THEN "InvalidPins"
    ELSE LET frame == s.frames[frameIndex]
         IN  IF ~validatePinCombination(pins,
                    effectivePreviousRoll(frame, frameIndex, rollIndex)).isValid
             THEN "Physics"
             ELSE IF \/ rollIndex > Len(frame.rolls)
                     \/ /\ frameIndex > 0
                        /\ Len(s.frames[frameIndex - 1].rolls) = 0
                  THEN "Sequencing"
             ELSE "none"

\* the error recordRoll throws on these arguments, "none" when it returns
recordRollError(s, frameIndex, rollIndex, pins) ==
    IF s = Null THEN "NoSession"
    ELSE IF frameIndex < 0 \/ frameIndex >= 10 THEN "InvalidFrame"
    ELSE IF rollIndex < 0 THEN "InvalidRollIndex"
    ELSE IF Len(pins) # 10 THEN "InvalidPins"
    ELSE LET frame == s.frames[frameIndex]
         IN  IF ~validatePinCombination(pins,
                    effectivePreviousRoll(frame, frameIndex, rollIndex)).isValid
             THEN "Physics"
             ELSE IF rollIndex > Len(frame.rolls) THEN "Sequencing"
             ELSE "none"

\* mutant: the roll is pushed whatever its index
writeRollAlwaysPush(rolls, rollIndex, roll) == Append(rolls, roll)

\* push or overwrite (the caller has excluded rollIndex > length)
writeRoll(rolls, rollIndex, roll) ==
    IF rollIndex = Len(rolls) THEN Append(rolls, roll)
    ELSE [rolls EXCEPT ![rollIndex + 1] = roll]

\* lines 131-161: both flags reset, then recomputed from the rolls
strikeFlag(frameIndex, rolls) ==
    IF frameIndex < 9
    THEN Len(rolls) > 0 /\ rolls[1].pinsKnocked = 10
    ELSE Len(rolls) > 0 /\ rolls[1].pinsKnocked = 10

spareFlag(frameIndex, rolls) ==
    IF frameIndex < 9
    THEN /\ ~(Len(rolls) > 0 /\ rolls[1].pinsKnocked = 10)
         /\ Len(rolls) >= 2
         /\ rolls[1].pinsKnocked + rolls[2].pinsKnocked = 10
    ELSE /\ ~(Len(rolls) > 0 /\ rolls[1].pinsKnocked = 10)
         /\ Len(rolls) >= 2 /\ ~strikeFlag(frameIndex, rolls)
         /\ rolls[1].pinsKnocked + rolls[2].pinsKnocked = 10

\* mutant: the flags are not reset before they are recomputed
recordedFrameStickyFlags(frame, frameIndex, rollIndex, pins) ==
    LET roll  == [pins |-> pins, pinsKnocked |-> countKnocked(pins)]
        rolls == writeRoll(frame.rolls, rollIndex, roll)
    IN  [frame EXCEPT !.rolls    = rolls,
                      !.isStrike = frame.isStrike \/ strikeFlag(frameIndex, rolls),
                      !.isSpare  = frame.isSpare \/ spareFlag(frameIndex, rolls)]

\* the frame after a successful recordRoll
recordedFrame(frame, frameIndex, rollIndex, pins) ==
    LET roll  == [pins |-> pins, pinsKnocked |-> countKnocked(pins)]
        rolls == writeRoll(frame.rolls, rollIndex, roll)
    IN  [frame EXCEPT !.rolls    = rolls,
                      !.isStrike = strikeFlag(frameIndex, rolls),
                      !.isSpare  = spareFlag(frameIndex, rolls)]

\* mutant: the flags of every other frame are reset as well
recordRollResetsAllFlags(s, frameIndex, rollIndex, pins) ==
    [s EXCEPT !.frames =
        [i \in DOMAIN s.frames |->
            IF i = frameIndex
            THEN recordedFrame(s.frames[i], frameIndex, rollIndex, pins)
            ELSE [s.frames[i] EXCEPT !.isStrike = FALSE, !.isSpare = FALSE]]]

\* mutant: the frame written is renumbered with its 0-based index
recordRollRenumbers(s, frameIndex, rollIndex, pins) ==
    [s EXCEPT !.frames[frameIndex] =
        [recordedFrame(s.frames[frameIndex], frameIndex, rollIndex, pins)
            EXCEPT !.frameNumber = frameIndex]]

\* the session after a recordRoll(frameIndex, rollIndex, pins) that did not throw
recordRoll(s, frameIndex, rollIndex, pins) ==
    [s EXCEPT !.frames[frameIndex] =
        recordedFrame(s.frames[frameIndex], frameIndex, rollIndex, pins)]

----------------------------------------------------------------------------
\* GameEngine.ts: scoring

\* mutant: after a double the second bonus roll is forgotten
getNextTwoRollsBonusSingle(frames, frameIndex) ==
    IF frameIndex >= 9 THEN 0
    ELSE LET nextFrame == frames[frameIndex + 1]
         IN  IF Len(nextFrame.rolls) = 0 THEN 0
             ELSE IF nextFrame.rolls[1].pinsKnocked = 10 THEN 10
             ELSE IF Len(nextFrame.rolls) > 1
                  THEN nextFrame.rolls[1].pinsKnocked
                            + nextFrame.rolls[2].pinsKnocked
                  ELSE nextFrame.rolls[1].pinsKnocked

\* mutant: both bonus rolls always come from the following frame
getNextTwoRollsBonusSameFrame(frames, frameIndex) ==
    IF frameIndex >= 9 THEN 0
    ELSE LET nextFrame == frames[frameIndex + 1]
         IN  IF Len(nextFrame.rolls) = 0 THEN 0
             ELSE IF Len(nextFrame.rolls) > 1
                  THEN nextFrame.rolls[1].pinsKnocked
                            + nextFrame.rolls[2].pinsKnocked
                  ELSE nextFrame.rolls[1].pinsKnocked

\* mutant: for frame 9 the second bonus roll is frame 10's last roll
getNextTwoRollsBonusLastRoll(frames, frameIndex) ==
    IF frameIndex >= 9 THEN 0
    ELSE LET nextFrame == frames[frameIndex + 1]
         IN  IF Len(nextFrame.rolls) = 0 THEN 0
             ELSE IF nextFrame.rolls[1].pinsKnocked = 10
                  THEN IF frameIndex = 8
                       THEN IF Len(nextFrame.rolls) > 1
                            THEN 10 + nextFrame.rolls[Len(nextFrame.rolls)].pinsKnocked
                            ELSE 10
                       ELSE LET frameAfterNext == frames[frameIndex + 2]
                            IN  IF Len(frameAfterNext.rolls) > 0
                                THEN 10 + frameAfterNext.rolls[1].pinsKnocked
                                ELSE 10
                  ELSE IF Len(nextFrame.rolls) > 1
                       THEN nextFrame.rolls[1].pinsKnocked
                                + nextFrame.rolls[2].pinsKnocked
                       ELSE nextFrame.rolls[1].pinsKnocked

getNextTwoRollsBonus(frames, frameIndex) ==
    IF frameIndex >= 9 THEN 0
    ELSE LET nextFrame == frames[frameIndex + 1]
         IN  IF Len(nextFrame.rolls) = 0 THEN 0
             ELSE IF nextFrame.rolls[1].pinsKnocked = 10
                  THEN IF frameIndex = 8
                       THEN IF Len(nextFrame.rolls) > 1
                            THEN 10 + nextFrame.rolls[2].pinsKnocked
                            ELSE 10
                       ELSE LET frameAfterNext == frames[frameIndex + 2]
                            IN  IF Len(frameAfterNext.rolls) > 0
                                THEN 10 + frameAfterNext.rolls[1].pinsKnocked
                                ELSE 10
                  ELSE IF Len(nextFrame.rolls) > 1
                       THEN nextFrame.rolls[1].pinsKnocked
                                + nextFrame.rolls[2].pinsKnocked
                       ELSE nextFrame.rolls[1].pinsKnocked

\* mutant: the bonus is the following frame's latest roll
getNextOneRollBonusLastRoll(frames, frameIndex) ==
    IF frameIndex >= 9 THEN 0
    ELSE LET nextFrame == frames[frameIndex + 1]
         IN  IF Len(nextFrame.rolls) = 0 THEN 0
             ELSE nextFrame.rolls[Len(nextFrame.rolls)].pinsKnocked

\* mutant: the bonus is read at index 1 of the following frame
getNextOneRollBonusSecond(frames, frameIndex) ==
    IF frameIndex >= 9 THEN 0
    ELSE LET nextFrame == frames[frameIndex + 1]
         IN  IF Len(nextFrame.rolls) < 2 THEN 0
             ELSE nextFrame.rolls[2].pinsKnocked

getNextOneRollBonus(frames, frameIndex) ==
    IF frameIndex >= 9 THEN 0
    ELSE LET nextFrame == frames[frameIndex + 1]
         IN  IF Len(nextFrame.rolls) = 0 THEN 0
             ELSE nextFrame.rolls[1].pinsKnocked

\* mutant: the spare test is "frameTotal <= 10", so open frames get a bonus
calculateStandardFrameScoreOpenBonus(frames, frameIndex, frame) ==
    IF Len(frame.rolls) = 0 THEN 0
    ELSE IF frame.rolls[1].pinsKnocked = 10
         THEN 10 + getNextTwoRollsBonus(frames, frameIndex)
    ELSE IF Len(frame.rolls) < 2 THEN frame.rolls[1].pinsKnocked
    ELSE LET frameTotal == frame.rolls[1].pinsKnocked + frame.rolls[2].pinsKnocked
         IN  IF frameTotal <= 10
             THEN frameTotal + getNextOneRollBonus(frames, frameIndex)
             ELSE frameTotal

\* mutant: an open frame of two rolls scores its second roll
calculateStandardFrameScoreSecondOnly(frames, frameIndex, frame) ==
    IF Len(frame.rolls) = 0 THEN 0
    ELSE IF frame.rolls[1].pinsKnocked = 10
         THEN 10 + getNextTwoRollsBonus(frames, frameIndex)
    ELSE IF Len(frame.rolls) < 2 THEN frame.rolls[1].pinsKnocked
    ELSE LET frameTotal == frame.rolls[1].pinsKnocked + frame.rolls[2].pinsKnocked
         IN  IF frameTotal = 10
             THEN 10 + getNextOneRollBonus(frames, frameIndex)
             ELSE frame.rolls[2].pinsKnocked

calculateStandardFrameScore(frames, frameIndex, frame) ==
    IF Len(frame.rolls) = 0 THEN 0
    ELSE IF frame.rolls[1].pinsKnocked = 10
         THEN 10 + getNextTwoRollsBonus(frames, frameIndex)
    ELSE IF Len(frame.rolls) < 2 THEN frame.rolls[1].pinsKnocked
    ELSE LET frameTotal == frame.rolls[1].pinsKnocked + frame.rolls[2].pinsKnocked
         IN  IF frameTotal = 10
             THEN 10 + getNextOneRollBonus(frames, frameIndex)
             ELSE frameTotal

RECURSIVE sumRollsFrom(_, _)
sumRollsFrom(rolls, i) ==
    IF i > Len(rolls) THEN 0
    ELSE rolls[i].pinsKnocked + sumRollsFrom(rolls, i + 1)

\* mutant: frame 10 is scored on its first two rolls
calculateFrame10ScoreTwoRolls(frame) ==
    IF Len(frame.rolls) = 0 THEN 0
    ELSE IF Len(frame.rolls) = 1 THEN frame.rolls[1].pinsKnocked
    ELSE frame.rolls[1].pinsKnocked + frame.rolls[2].pinsKnocked

calculateFrame10Score(frame) ==
    IF Len(frame.rolls) = 0 THEN 0 ELSE sumRollsFrom(frame.rolls, 1)

\* called with an active session and a frame index in 0..9
calculateFrameScore(frames, frameIndex) ==
    IF frameIndex = 9
    THEN calculateFrame10Score(frames[frameIndex])
    ELSE calculateStandardFrameScore(frames, frameIndex, frames[frameIndex])

\* the loop "for (i = 0; i < 10; i++) totalScore += calculateFrameScore(i)"
\* mutant: the loop stops at "i < 9"
RECURSIVE totalScoreLoopNine(_, _, _)
totalScoreLoopNine(frames, i, totalScore) ==
    IF i < 9
    THEN totalScoreLoopNine(frames, i + 1, totalScore + calculateFrameScore(frames, i))
    ELSE totalScore

RECURSIVE totalScoreLoop(_, _, _)
totalScoreLoop(frames, i, totalScore) ==
    IF i < 10
    THEN totalScoreLoop(frames, i + 1, totalScore + calculateFrameScore(frames, i))
    ELSE totalScore

calculateTotalScore(frames) == totalScoreLoop(frames, 0, 0)

\* mutant: the frame examined is the one at index 8
isGameCompleteFrameNine(s) ==
    IF s = Null THEN FALSE
    ELSE LET frame10 == s.frames[8]
         IN  IF Len(frame10.rolls) = 0 THEN FALSE
             ELSE IF frame10.rolls[1].pinsKnocked = 10
                  THEN Len(frame10.rolls) = 3
             ELSE IF Len(frame10.rolls) >= 2
                  THEN IF frame10.rolls[1].pinsKnocked
                            + frame10.rolls[2].pinsKnocked = 10
                       THEN Len(frame10.rolls) = 3
                       ELSE TRUE
             ELSE FALSE

\* mutant: a frame-10 spare is complete after two rolls
isGameCompleteSpareTwo(s) ==
    IF s = Null THEN FALSE
    ELSE LET frame10 == s.frames[9]
         IN  IF Len(frame10.rolls) = 0 THEN FALSE
             ELSE IF frame10.rolls[1].pinsKnocked = 10
                  THEN Len(frame10.rolls) = 3
             ELSE Len(frame10.rolls) >= 2

isGameComplete(s) ==
    IF s = Null THEN FALSE
    ELSE LET frame10 == s.frames[9]
         IN  IF Len(frame10.rolls) = 0 THEN FALSE
             ELSE IF frame10.rolls[1].pinsKnocked = 10
                  THEN Len(frame10.rolls) = 3
             ELSE IF Len(frame10.rolls) >= 2
                  THEN IF frame10.rolls[1].pinsKnocked
                            + frame10.rolls[2].pinsKnocked = 10
                       THEN Len(frame10.rolls) = 3
                       ELSE TRUE
             ELSE FALSE

\* mutant: the frame index is checked before the session
calculateFrameScoreErrorIndexFirst(s, frameIndex) ==
    IF frameIndex < 0 \/ frameIndex >= 10 THEN "InvalidFrame"
    ELSE IF s = Null THEN "NoSession"
    ELSE "none"

\* GameEngine.ts: validateGameState.  An error message is modelled by its
\* kind followed by the numbers the message interpolates.

invalidPinCount(roll) == roll.pinsKnocked < 0 \/ roll.pinsKnocked > 10

validateFrame10(frame) ==
    LET rolls == frame.rolls
        n     == Len(rolls)
    IN  IF n > 3 THEN << <<"tooManyRolls", 10, n>> >>
        ELSE
            LET counts ==
                    LET bad == SelectSeq([i \in 1..n |-> i],
                                    LAMBDA i : invalidPinCount(rolls[i]))
                    IN  [j \in DOMAIN bad |->
                            <<"invalidPinCount", 10, bad[j], rolls[bad[j]].pinsKnocked>>]
                firstTwo ==
                    IF /\ n >= 2
                       /\ rolls[1].pinsKnocked < 10
                       /\ rolls[1].pinsKnocked + rolls[2].pinsKnocked > 10
                    THEN << <<"firstTwoExceed",
                              rolls[1].pinsKnocked + rolls[2].pinsKnocked>> >>
                    ELSE <<>>
                third ==
                    IF n # 3 THEN <<>>
                    ELSE IF rolls[1].pinsKnocked < 10
                         THEN IF rolls[1].pinsKnocked + rolls[2].pinsKnocked < 10
                              THEN << <<"thirdNotAllowed">> >>
                              ELSE <<>>
                         ELSE IF /\ rolls[2].pinsKnocked < 10
                                 /\ rolls[2].pinsKnocked + rolls[3].pinsKnocked > 10
                              THEN << <<"secondThirdExceed",
                                        rolls[2].pinsKnocked + rolls[3].pinsKnocked>> >>
                              ELSE <<>>
            IN  counts \o firstTwo \o third

\* mutant: a roll after a strike in frames 1-9 is not looked at
validateFrameNoStrikeCheck(frameIndex, frame) ==
    LET rolls == frame.rolls
        n     == Len(rolls)
    IN  IF n = 0 THEN <<>>
        ELSE IF frameIndex = 9 THEN validateFrame10(frame)
        ELSE
            LET tooMany ==
                    IF n > 2 THEN << <<"tooManyRolls", frameIndex + 1, n>> >>
                    ELSE <<>>
                first ==
                    IF invalidPinCount(rolls[1])
                    THEN << <<"invalidPinCount", frameIndex + 1, 1,
                              rolls[1].pinsKnocked>> >>
                    ELSE <<>>
                second ==
                    IF rolls[1].pinsKnocked < 10 /\ n > 1
                    THEN (IF invalidPinCount(rolls[2])
                          THEN << <<"invalidPinCount", frameIndex + 1, 2,
                                    rolls[2].pinsKnocked>> >>
                          ELSE <<>>)
                         \o
                         (IF rolls[1].pinsKnocked + rolls[2].pinsKnocked > 10
                          THEN << <<"totalExceeds", frameIndex + 1,
                                    rolls[1].pinsKnocked + rolls[2].pinsKnocked>> >>
                          ELSE <<>>)
                    ELSE <<>>
            IN  tooMany \o first \o second

validateFrame(frameIndex, frame) ==
    LET rolls == frame.rolls
        n     == Len(rolls)
    IN  IF n = 0 THEN <<>>
        ELSE IF frameIndex = 9 THEN validateFrame10(frame)
        ELSE
            LET tooMany ==
                    IF n > 2 THEN << <<"tooManyRolls", frameIndex + 1, n>> >>
                    ELSE <<>>
                first ==
                    IF invalidPinCount(rolls[1])
                    THEN << <<"invalidPinCount", frameIndex + 1, 1,
                              rolls[1].pinsKnocked>> >>
                    ELSE <<>>
                strike ==
                    IF rolls[1].pinsKnocked = 10 /\ n > 1
                    THEN << <<"strikeOneRoll", frameIndex + 1>> >>
                    ELSE <<>>
                second ==
                    IF rolls[1].pinsKnocked < 10 /\ n > 1
                    THEN (IF invalidPinCount(rolls[2])
                          THEN << <<"invalidPinCount", frameIndex + 1, 2,
                                    rolls[2].pinsKnocked>> >>
                          ELSE <<>>)
                         \o
                         (IF rolls[1].pinsKnocked + rolls[2].pinsKnocked > 10
                          THEN << <<"totalExceeds", frameIndex + 1,
                                    rolls[1].pinsKnocked + rolls[2].pinsKnocked>> >>
                          ELSE <<>>)
                    ELSE <<>>
            IN  tooMany \o first \o strike \o second

\* the loop over the ten frames, from frameIndex on
RECURSIVE validateGameStateLoop(_, _)
validateGameStateLoop(frames, frameIndex) ==
    IF frameIndex >= 10 THEN <<>>
    ELSE validateFrame(frameIndex, frames[frameIndex])
            \o validateGameStateLoop(frames, frameIndex + 1)

\* mutant: a missing session is reported as a valid state without errors
validateGameStateNoSessionValid(s) ==
    IF s = Null THEN [isValid |-> TRUE, errors |-> <<>>]
    ELSE LET errors == validateGameStateLoop(s.frames, 0)
         IN  [isValid |-> Len(errors) = 0, errors |-> errors]

validateGameState(s) ==
    IF s = Null
    THEN [isValid |-> FALSE, errors |-> << <<"No active game session">> >>]
    ELSE LET errors == validateGameStateLoop(s.frames, 0)
         IN  [isValid |-> Len(errors) = 0, errors |-> errors]

\* GameEngine.ts: validatePinPhysics

\* mutant: the rack is not reset before the third roll after a spare
previousRollForValidationNoSpareReset(frame, frameIndex, rollIndex) ==
    LET previousRoll ==
            IF rollIndex > 0 /\ rollIndex <= Len(frame.rolls)
            THEN frame.rolls[rollIndex] ELSE Undefined
    IN  IF frameIndex = 9 /\ previousRoll # Undefined
        THEN IF previousRoll.pinsKnocked = 10 THEN Undefined
             ELSE previousRoll
        ELSE previousRoll

\* lines 538-556: rollIndex > 0 ? frame.rolls[rollIndex - 1] : undefined,
\* then the frame 10 resets
previousRollForValidation(frame, frameIndex, rollIndex) ==
    LET previousRoll ==
            IF rollIndex > 0 /\ rollIndex <= Len(frame.rolls)
            THEN frame.rolls[rollIndex] ELSE Undefined
    IN  IF frameIndex = 9 /\ previousRoll # Undefined
        THEN IF previousRoll.pinsKnocked = 10 THEN Undefined
             ELSE IF /\ rollIndex = 2
                     /\ Len(frame.rolls) >= 2
                     /\ frame.rolls[1].pinsKnocked + frame.rolls[2].pinsKnocked = 10
                  THEN Undefined
                  ELSE previousRoll
        ELSE previousRoll

\* the error validatePinPhysics throws, "none" when it returns
validatePinPhysicsError(s, frameIndex) ==
    IF s = Null THEN "NoSession"
    ELSE IF frameIndex < 0 \/ frameIndex >= 10 THEN "InvalidFrame"
    ELSE "none"

\* the result of a validatePinPhysics(pins, frameIndex, rollIndex) that did
\* not throw
validatePinPhysics(s, pins, frameIndex, rollIndex) ==
    validatePinCombination(pins,
        previousRollForValidation(s.frames[frameIndex], frameIndex, rollIndex))

\* the error calculateFrameScore(frameIndex) throws, "none" when it returns
calculateFrameScoreError(s, frameIndex) ==
    IF s = Null THEN "NoSession"
    ELSE IF frameIndex < 0 \/ frameIndex >= 10 THEN "InvalidFrame"
    ELSE "none"

\* the error calculateTotalScore() throws, "none" when it returns
calculateTotalScoreError(s) ==
    IF s = Null THEN "NoSession" ELSE "none"

----------------------------------------------------------------------------
\* Callers

GameModes == {"open", "league"}

\* the league passed with each mode: none for open play, a league for league
\* play (GameEngine.test.ts)
leagueOf(mode) == IF mode = "league" THEN "league1" ELSE NoLeague

Strike == Arr(PinNumbers)

\* pin arrays a caller passes: gutter, the head pin, pins 2 and 3 (possible
\* only once pin 1 is down), the nine pins behind the head pin, strike
PinInputs ==
    { Arr({}), Arr({1}), Arr({2, 3}), Arr(PinNumbers \ {1}), Strike }

RECURSIVE totalRollsFrom(_, _)
totalRollsFrom(frames, i) ==
    IF i >= NumFrames THEN 0
    ELSE Len(frames[i].rolls) + totalRollsFrom(frames, i + 1)

\* the bound on play: an append keeps the session within max rolls
WithinBounds(frameIndex, rollIndex, max) ==
    (session # Null /\ rollIndex = Len(session.frames[frameIndex].rolls))
        => totalRollsFrom(session.frames, 0) < max

\* no call traced
NoCall == [op |-> "none", mode |-> "none", league |-> "none",
           frameIndex |-> 0, rollIndex |-> 0, pins |-> <<>>,
           previousRoll |-> Undefined, result |-> "void"]

Init ==
    /\ session = Null
    /\ lastError = "none"
    /\ k = 0
    /\ call = NoCall

StartNewGame ==
    \E mode \in GameModes :
        /\ session' = startNewGame(mode, leagueOf(mode))
        /\ lastError' = "none"
        /\ UNCHANGED <<k, call>>

\* mutant: the pins are validated after the roll is written
recordRollEffectWriteFirst(frameIndex, rollIndex, pins) ==
    LET err == recordRollError(session, frameIndex, rollIndex, pins)
    IN  /\ session' = IF err = "none"
                         \/ (err = "Physics"
                                /\ rollIndex <= Len(session.frames[frameIndex].rolls))
                      THEN recordRoll(session, frameIndex, rollIndex, pins)
                      ELSE session
        /\ lastError' = err

\* what one call of recordRoll does to the engine: every throw precedes the
\* first write, so a call that throws leaves the session as it was
recordRollEffect(frameIndex, rollIndex, pins) ==
    LET err == recordRollError(session, frameIndex, rollIndex, pins)
    IN  /\ session' = IF err = "none"
                      THEN recordRoll(session, frameIndex, rollIndex, pins)
                      ELSE session
        /\ lastError' = err

\* one call of recordRoll, untraced
Call(frameIndex, rollIndex, pins) ==
    /\ recordRollEffect(frameIndex, rollIndex, pins)
    /\ UNCHANGED <<k, call>>

\* Free play: any caller, any order, in frames 8, 9 and 10
FrameInputs == {7, 8, 9}

RollInputs == 0..MaxTotal

RecordRoll ==
    \E frameIndex \in FrameInputs, rollIndex \in RollInputs, pins \in PinInputs :
        /\ WithinBounds(frameIndex, rollIndex, MaxTotal)
        /\ Call(frameIndex, rollIndex, pins)

Next == StartNewGame \/ RecordRoll

Spec == Init /\ [][Next]_vars

\* Play confined to frames 9 and 10, with more rolls
TailFrames == {8, 9}

TailRolls == 0..MaxTail

RecordTailRoll ==
    \E frameIndex \in TailFrames, rollIndex \in TailRolls, pins \in PinInputs :
        /\ WithinBounds(frameIndex, rollIndex, MaxTail)
        /\ Call(frameIndex, rollIndex, pins)

NextTail == StartNewGame \/ RecordTailRoll

SpecTail == Init /\ [][NextTail]_vars

\* Traced play: every call, with arguments in and out of range, is recorded
\* in call together with what it returned
FrameArgs == {-1, 0, 9, 10}

RollArgs == {-1, 0, 1, 2, 3}

\* gutter, seven pins, strike, pin 7 alone (impossible), a 9-entry array
PinArgs ==
    { AllStanding, Arr(1..7), Strike, Arr({7}), [n \in 1..9 |-> "standing"] }

\* mutant: the frames of the session in progress are kept
TracedStartNewGameKeepFrames ==
    \E mode \in GameModes :
        /\ session' = IF session = Null THEN startNewGame(mode, leagueOf(mode))
                      ELSE [session EXCEPT !.mode = mode,
                                           !.league = leagueOf(mode)]
        /\ lastError' = "none"
        /\ call' = [NoCall EXCEPT !.op = "startNewGame", !.mode = mode,
                                  !.league = leagueOf(mode),
                                  !.result = session']
        /\ UNCHANGED k

\* startNewGame returns the session it installed
TracedStartNewGame ==
    \E mode \in GameModes :
        /\ session' = startNewGame(mode, leagueOf(mode))
        /\ lastError' = "none"
        /\ call' = [NoCall EXCEPT !.op = "startNewGame", !.mode = mode,
                                  !.league = leagueOf(mode),
                                  !.result = session']
        /\ UNCHANGED k

\* the bound on traced play: an append keeps the session within max rolls
TracedWithinBounds(frameIndex, rollIndex, pins, max) ==
    recordRollError(session, frameIndex, rollIndex, pins) = "none"
        => \/ rollIndex < Len(session.frames[frameIndex].rolls)
           \/ totalRollsFrom(session.frames, 0) < max

\* one traced call of recordRoll with arguments from the given sets
TracedRecordRollOver(frameArgs, rollArgs, pinArgs, max) ==
    \E frameIndex \in frameArgs, rollIndex \in rollArgs, pins \in pinArgs :
        /\ TracedWithinBounds(frameIndex, rollIndex, pins, max)
        /\ recordRollEffect(frameIndex, rollIndex, pins)
        /\ call' = [NoCall EXCEPT !.op = "recordRoll",
                                  !.frameIndex = frameIndex,
                                  !.rollIndex = rollIndex, !.pins = pins]
        /\ UNCHANGED k

TracedRecordRoll ==
    TracedRecordRollOver(FrameArgs, RollArgs, PinArgs, MaxTraced)

TracedCalculateFrameScore ==
    \E frameIndex \in FrameArgs :
        LET err == calculateFrameScoreError(session, frameIndex)
        IN  /\ lastError' = err
            /\ call' = [NoCall EXCEPT
                            !.op = "calculateFrameScore",
                            !.frameIndex = frameIndex,
                            !.result = IF err = "none"
                                       THEN calculateFrameScore(session.frames, frameIndex)
                                       ELSE "void"]
            /\ UNCHANGED <<session, k>>

TracedCalculateTotalScore ==
    LET err == calculateTotalScoreError(session)
    IN  /\ lastError' = err
        /\ call' = [NoCall EXCEPT
                        !.op = "calculateTotalScore",
                        !.result = IF err = "none"
                                   THEN calculateTotalScore(session.frames)
                                   ELSE "void"]
        /\ UNCHANGED <<session, k>>

\* mutant: a completed game closes the session
TracedIsGameCompleteClosing ==
    /\ lastError' = "none"
    /\ call' = [NoCall EXCEPT !.op = "isGameComplete",
                              !.result = isGameComplete(session)]
    /\ session' = IF isGameComplete(session) THEN Null ELSE session
    /\ UNCHANGED k

\* isGameComplete has no throw statement
TracedIsGameComplete ==
    /\ lastError' = "none"
    /\ call' = [NoCall EXCEPT !.op = "isGameComplete",
                              !.result = isGameComplete(session)]
    /\ UNCHANGED <<session, k>>

\* validateGameState has no throw statement
TracedValidateGameState ==
    /\ lastError' = "none"
    /\ call' = [NoCall EXCEPT !.op = "validateGameState",
                              !.result = validateGameState(session)]
    /\ UNCHANGED <<session, k>>

NextCalls ==
    \/ TracedStartNewGame
    \/ TracedRecordRoll
    \/ TracedCalculateFrameScore
    \/ TracedCalculateTotalScore
    \/ TracedIsGameComplete
    \/ TracedValidateGameState

SpecCalls == Init /\ [][NextCalls]_vars

\* Traced play in frames 9 and 10, with valid arguments
TracedTailRolls == 0..MaxTracedTail

\* gutter, the head pin, the nine pins behind it (a spare after the head
\* pin), strike
TracedTailPins == { AllStanding, Arr({1}), Arr(PinNumbers \ {1}), Strike }

TracedTailStart ==
    /\ session' = startNewGame("open", NoLeague)
    /\ lastError' = "none"
    /\ call' = [NoCall EXCEPT !.op = "startNewGame", !.mode = "open",
                              !.league = NoLeague, !.result = session']
    /\ UNCHANGED k

TracedTailRecordRoll ==
    TracedRecordRollOver(TailFrames, TracedTailRolls, TracedTailPins, MaxTracedTail)

NextTracedTail == TracedTailStart \/ TracedTailRecordRoll

SpecTracedTail == Init /\ [][NextTracedTail]_vars

\* Play with pre-validation: a caller checks a pin selection with
\* validatePinPhysics or with the validator itself, at any point of the game,
\* and records rolls in frames 1 and 10
PreFrames == {-1, 0, 9}

PreRolls == 0..MaxPreValidated

\* no previous roll, or the head pin
PrePrevious == { Undefined, [pins |-> Arr({1}), pinsKnocked |-> 1] }

PreRecordRoll ==
    TracedRecordRollOver({0, 9}, PreRolls, TracedTailPins, MaxPreValidated)

\* mutant: the validation is remembered as the outcome of the last roll
PreValidatePinPhysicsRemembered ==
    \E frameIndex \in PreFrames, rollIndex \in PreRolls, pins \in TracedTailPins :
        LET err == validatePinPhysicsError(session, frameIndex)
            result == IF err = "none"
                      THEN validatePinPhysics(session, pins, frameIndex, rollIndex)
                      ELSE "void"
        IN  /\ lastError' = err
            /\ call' = [NoCall EXCEPT !.op = "validatePinPhysics",
                                      !.frameIndex = frameIndex,
                                      !.rollIndex = rollIndex, !.pins = pins,
                                      !.result = result]
            /\ session' = IF err = "none" /\ result.isValid
                                /\ rollIndex <= Len(session.frames[frameIndex].rolls)
                          THEN recordRoll(session, frameIndex, rollIndex, pins)
                          ELSE session
            /\ UNCHANGED k

PreValidatePinPhysics ==
    \E frameIndex \in PreFrames, rollIndex \in PreRolls, pins \in TracedTailPins :
        LET err == validatePinPhysicsError(session, frameIndex)
        IN  /\ lastError' = err
            /\ call' = [NoCall EXCEPT
                            !.op = "validatePinPhysics",
                            !.frameIndex = frameIndex,
                            !.rollIndex = rollIndex, !.pins = pins,
                            !.result = IF err = "none"
                                       THEN validatePinPhysics(session, pins,
                                                frameIndex, rollIndex)
                                       ELSE "void"]
            /\ UNCHANGED <<session, k>>

\* the validator is an object of its own: its calls neither read nor write
\* the engine
PreValidatePinCombination ==
    \E pins \in TracedTailPins, previousRoll \in PrePrevious :
        /\ call' = [NoCall EXCEPT
                        !.op = "validatePinCombination", !.pins = pins,
                        !.previousRoll = previousRoll,
                        !.result = validatePinCombination(pins, previousRoll)]
        /\ UNCHANGED <<session, lastError, k>>

PreIsPhysicallyPossible ==
    \E pins \in TracedTailPins :
        /\ call' = [NoCall EXCEPT !.op = "isPhysicallyPossible", !.pins = pins,
                                  !.result = isPhysicallyPossible(pins)]
        /\ UNCHANGED <<session, lastError, k>>

PreGetInvalidPins ==
    \E pins \in TracedTailPins, previousRoll \in PrePrevious :
        /\ call' = [NoCall EXCEPT
                        !.op = "getInvalidPins", !.pins = pins,
                        !.previousRoll = previousRoll,
                        !.result = getInvalidPins(pins, previousRoll)]
        /\ UNCHANGED <<session, lastError, k>>

NextPreValidated ==
    \/ TracedTailStart
    \/ PreRecordRoll
    \/ PreValidatePinPhysics
    \/ PreValidatePinCombination
    \/ PreIsPhysicallyPossible
    \/ PreGetInvalidPins

SpecPreValidated == Init /\ [][NextPreValidated]_vars

\* Diagnosed play: the caller holds the session object that
\* getCurrentSession returns and pushes rolls onto its frames without going
\* through recordRoll, then asks validateGameState
ManualFrames == {0, 9}

\* the pin counts written from outside: below and above the range, a gutter
\* ball, a strike, and counts that make an open frame (3+3), a spare (3+7)
\* and an excess (7+7)
ManualCounts == {-1, 0, 3, 7, 10, 11}

MutatePushRoll ==
    \E frameIndex \in ManualFrames, pinsKnocked \in ManualCounts :
        /\ session # Null
        /\ totalRollsFrom(session.frames, 0) < MaxManual
        /\ session' = [session EXCEPT !.frames[frameIndex].rolls =
                            Append(@, [pins |-> AllStanding,
                                       pinsKnocked |-> pinsKnocked])]
        /\ call' = [NoCall EXCEPT !.op = "mutate", !.frameIndex = frameIndex]
        /\ UNCHANGED <<lastError, k>>

NextDiagnose == TracedTailStart \/ MutatePushRoll \/ TracedValidateGameState

SpecDiagnose == Init /\ [][NextDiagnose]_vars

\* Validator runs (the pin physics properties of GameEngine.property.test.ts):
\* an input is drawn, then one of the validator's operations is applied to
\* it, or the engine is given the previous roll and then the pins as the
\* first and second roll of frame 1

\* every 10-entry array, and arrays of 0, 9 and 11 entries
PhysicsPins ==
    [PinNumbers -> {"standing", "knocked"}]
        \cup { [n \in 1..len |-> state] :
                    len \in {0, 9, 11}, state \in {"standing", "knocked"} }

\* no previous roll, or a roll knocking any of the pins 1..MaxPreviousPin
PhysicsPrevious ==
    {Undefined}
        \cup { [pins |-> Arr(S), pinsKnocked |-> Cardinality(S)] :
                    S \in SUBSET (1..MaxPreviousPin) }

PhysicsInit ==
    /\ session = Null
    /\ lastError = "none"
    /\ k = 0
    /\ call \in { [NoCall EXCEPT !.op = "input", !.pins = pins,
                                  !.previousRoll = previousRoll] :
                    pins \in PhysicsPins, previousRoll \in PhysicsPrevious }

ValidatePinCombination ==
    /\ call.op = "input" /\ session = Null
    /\ call' = [call EXCEPT
                    !.op = "validatePinCombination",
                    !.result = validatePinCombination(call.pins, call.previousRoll)]
    /\ UNCHANGED <<session, lastError, k>>

IsPhysicallyPossible ==
    /\ call.op = "input" /\ session = Null
    /\ call.previousRoll = Undefined
    /\ call' = [call EXCEPT !.op = "isPhysicallyPossible",
                            !.result = isPhysicallyPossible(call.pins)]
    /\ UNCHANGED <<session, lastError, k>>

GetInvalidPins ==
    /\ call.op = "input" /\ session = Null
    /\ call' = [call EXCEPT
                    !.op = "getInvalidPins",
                    !.result = getInvalidPins(call.pins, call.previousRoll)]
    /\ UNCHANGED <<session, lastError, k>>

PhysicsStartNewGame ==
    /\ call.op = "input" /\ session = Null
    /\ call.previousRoll # Undefined
    /\ session' = startNewGame("open", NoLeague)
    /\ lastError' = "none"
    /\ UNCHANGED <<k, call>>

\* the previous roll is recorded as the first roll of frame 1
PhysicsFirstRoll ==
    /\ call.op = "input" /\ session # Null
    /\ Len(session.frames[0].rolls) = 0
    /\ lastError = "none"
    /\ recordRollEffect(0, 0, call.previousRoll.pins)
    /\ UNCHANGED <<k, call>>

\* the pins are submitted as the second roll of frame 1
PhysicsSecondRoll ==
    /\ call.op = "input" /\ session # Null
    /\ Len(session.frames[0].rolls) = 1
    /\ recordRollEffect(0, 1, call.pins)
    /\ call' = [call EXCEPT !.op = "recordRoll", !.frameIndex = 0,
                            !.rollIndex = 1]
    /\ UNCHANGED k

\* the pins are submitted as a correction of the first roll of frame 1
PhysicsCorrection ==
    /\ call.op = "input" /\ session # Null
    /\ Len(session.frames[0].rolls) = 1
    /\ recordRollEffect(0, 0, call.pins)
    /\ call' = [call EXCEPT !.op = "recordRoll", !.frameIndex = 0,
                            !.rollIndex = 0]
    /\ UNCHANGED k

NextPhysics ==
    \/ ValidatePinCombination
    \/ IsPhysicallyPossible
    \/ GetInvalidPins
    \/ PhysicsStartNewGame
    \/ PhysicsFirstRoll
    \/ PhysicsSecondRoll
    \/ PhysicsCorrection

SpecPhysics == PhysicsInit /\ [][NextPhysics]_vars

\* Scripted games (GameEngine.property.test.ts): the perfect game (k = 10)
\* and the all-spares games of (k, 10 - k) with a bonus roll of k (k in 1..9)

\* firstRoll: slots 0..k-1 knocked; secondRoll: slots k..9 knocked
firstRoll(firstRollPins) == Arr(1..firstRollPins)

secondRoll(firstRollPins) == Arr((firstRollPins + 1)..NumPins)

rollsRecorded == IF session = Null THEN 0 ELSE totalRollsFrom(session.frames, 0)

GameInit ==
    /\ session = Null
    /\ lastError = "none"
    /\ k \in 1..10
    /\ call = NoCall

GameStart ==
    /\ session = Null
    /\ session' = startNewGame("open", NoLeague)
    /\ lastError' = "none"
    /\ UNCHANGED <<k, call>>

\* the n-th call of the perfect game, made while no call has thrown
PerfectGameRoll ==
    /\ k = 10 /\ session # Null /\ lastError = "none"
    /\ LET n == rollsRecorded
       IN  /\ n < 12
           /\ IF n < 9 THEN Call(n, 0, Strike) ELSE Call(9, n - 9, Strike)

\* the n-th call of the all-spares game, made while no call has thrown
SparesGameRoll ==
    /\ k \in 1..9 /\ session # Null /\ lastError = "none"
    /\ LET n == rollsRecorded
       IN  /\ n < 21
           /\ IF n < 18
              THEN Call(n \div 2, n % 2,
                        IF n % 2 = 0 THEN firstRoll(k) ELSE secondRoll(k))
              ELSE Call(9, n - 18,
                        IF n - 18 = 1 THEN secondRoll(k) ELSE firstRoll(k))

NextGame == GameStart \/ PerfectGameRoll \/ SparesGameRoll

SpecGame == GameInit /\ [][NextGame]_vars

----------------------------------------------------------------------------
\* Properties

\* vocabulary of the properties: the pins knocked by roll rollIndex of frame
\* frameIndex, 0 while that roll is unrecorded
pinsOf(frames, frameIndex, rollIndex) ==
    IF rollIndex < Len(frames[frameIndex].rolls)
    THEN frames[frameIndex].rolls[rollIndex + 1].pinsKnocked
    ELSE 0

rollCount(frames, frameIndex) == Len(frames[frameIndex].rolls)

RECURSIVE SeqSum(_)
SeqSum(xs) == IF xs = <<>> THEN 0 ELSE xs[1] + SeqSum(Tail(xs))

\* frames 1-9 hold one strike each and frame 10 holds three strikes
TwelveStrikes ==
    /\ session # Null
    /\ \A i \in 0..8 : rollCount(session.frames, i) = 1
                        /\ pinsOf(session.frames, i, 0) = 10
    /\ rollCount(session.frames, 9) = 3
    /\ \A r \in 0..2 : pinsOf(session.frames, 9, r) = 10

\* C1: after twelve strikes (one in each of frames 1-9, three in frame 10)
\* the total score is 300 and every frame scores 30.
C1_PerfectGame ==
    TwelveStrikes =>
        /\ calculateTotalScore(session.frames) = 300
        /\ \A i \in 0..9 : calculateFrameScore(session.frames, i) = 30

C1_Witness == TwelveStrikes /\ k = 10 /\ lastError = "none"

\* C2: a strike in frames 1-8 scores 10 while the following frame is empty
\* (whatever later frames hold), 10+a+b when the following frame starts with
\* a non-strike a and b is its second roll (0 while unrecorded), and 10+10+c
\* when the following frame starts with a strike and c is the first roll of
\* the frame after it (0 while unrecorded).
C2_StrikeBonus ==
    session # Null =>
        \A i \in 0..7 :
            LET F == session.frames
            IN  (rollCount(F, i) >= 1 /\ pinsOf(F, i, 0) = 10) =>
                    calculateFrameScore(F, i) =
                        IF rollCount(F, i + 1) = 0 THEN 10
                        ELSE IF pinsOf(F, i + 1, 0) # 10
                             THEN 10 + pinsOf(F, i + 1, 0) + pinsOf(F, i + 1, 1)
                             ELSE 10 + 10 + pinsOf(F, i + 2, 0)

\* a double from frame 8 followed by a first roll in frame 10 that differs
\* from what frame 9 holds at index 1
C2_Witness ==
    /\ session # Null
    /\ pinsOf(session.frames, 7, 0) = 10
    /\ pinsOf(session.frames, 8, 0) = 10
    /\ pinsOf(session.frames, 9, 0) \in 1..9
    /\ calculateFrameScore(session.frames, 7) = 20 + pinsOf(session.frames, 9, 0)

\* C3: for a strike in frame 9 followed by a strike opening frame 10, the
\* second bonus roll is frame 10's second roll (0 while unrecorded); frame
\* 10's third roll never contributes.
C3_Frame9Strike ==
    session # Null =>
        LET F == session.frames
        IN  (rollCount(F, 8) >= 1 /\ pinsOf(F, 8, 0) = 10 /\ pinsOf(F, 9, 0) = 10) =>
                calculateFrameScore(F, 8) = 10 + 10 + pinsOf(F, 9, 1)

\* frame 10 holds strike, second roll, third roll, the last two different
C3_Witness ==
    /\ session # Null
    /\ pinsOf(session.frames, 8, 0) = 10
    /\ pinsOf(session.frames, 9, 0) = 10
    /\ rollCount(session.frames, 9) = 3
    /\ pinsOf(session.frames, 9, 2) > pinsOf(session.frames, 9, 1)
    /\ calculateFrameScore(session.frames, 8) = 20 + pinsOf(session.frames, 9, 1)

\* C4: a spare in frames 1-9 scores 10 while the following frame is empty
\* and 10 plus the following frame's first roll once it is recorded; the
\* value follows the current rolls, so it holds after that roll is corrected.
C4_SpareBonus ==
    session # Null =>
        \A i \in 0..8 :
            LET F == session.frames
            IN  (/\ rollCount(F, i) >= 2
                 /\ pinsOf(F, i, 0) # 10
                 /\ pinsOf(F, i, 0) + pinsOf(F, i, 1) = 10) =>
                    calculateFrameScore(F, i) =
                        IF rollCount(F, i + 1) = 0 THEN 10
                        ELSE 10 + pinsOf(F, i + 1, 0)

\* a spare in frame 9 whose bonus roll was corrected: frame 10's first two
\* rolls share a knocked pin, which only a correction of the first roll
\* after the second was recorded produces
C4_Witness ==
    /\ session # Null
    /\ rollCount(session.frames, 8) = 2
    /\ pinsOf(session.frames, 8, 0) \in 1..9
    /\ pinsOf(session.frames, 8, 0) + pinsOf(session.frames, 8, 1) = 10
    /\ rollCount(session.frames, 9) = 2
    /\ pinsOf(session.frames, 9, 0) \in 1..9
    /\ pinsOf(session.frames, 9, 1) # pinsOf(session.frames, 9, 0)
    /\ Knocked(session.frames[9].rolls[1].pins)
            \cap Knocked(session.frames[9].rolls[2].pins) # {}
    /\ calculateFrameScore(session.frames, 8) = 10 + pinsOf(session.frames, 9, 0)

\* C5: a frame 1-9 that is neither strike nor spare scores 0 with no roll,
\* a with one roll, a+b with two rolls (a+b < 10), whatever later frames hold.
C5_OpenFrame ==
    session # Null =>
        \A i \in 0..8 :
            LET F == session.frames
                a == pinsOf(F, i, 0)
                b == pinsOf(F, i, 1)
            IN  /\ rollCount(F, i) = 0 => calculateFrameScore(F, i) = 0
                /\ (rollCount(F, i) = 1 /\ a # 10) => calculateFrameScore(F, i) = a
                /\ (rollCount(F, i) = 2 /\ a + b < 10) =>
                        calculateFrameScore(F, i) = a + b

\* an open frame 8 of two rolls, both knocking pins, before a strike and a roll
C5_Witness ==
    /\ session # Null
    /\ rollCount(session.frames, 7) = 2
    /\ pinsOf(session.frames, 7, 0) > 0
    /\ pinsOf(session.frames, 7, 1) > 0
    /\ pinsOf(session.frames, 7, 0) + pinsOf(session.frames, 7, 1) < 10
    /\ pinsOf(session.frames, 8, 0) > 0
    /\ calculateFrameScore(session.frames, 7) =
            pinsOf(session.frames, 7, 0) + pinsOf(session.frames, 7, 1)

\* the all-spares game of (kk, 10 - kk) with a bonus roll of kk, as recorded
SparesPlayed(kk) ==
    /\ session # Null
    /\ \A i \in 0..8 :
            /\ rollCount(session.frames, i) = 2
            /\ session.frames[i].rolls[1].pins = firstRoll(kk)
            /\ session.frames[i].rolls[2].pins = secondRoll(kk)
    /\ rollCount(session.frames, 9) = 3
    /\ session.frames[9].rolls[1].pins = firstRoll(kk)
    /\ session.frames[9].rolls[2].pins = secondRoll(kk)
    /\ session.frames[9].rolls[3].pins = firstRoll(kk)

\* C6: for every k in 1..9 the game of spares (k, 10-k) in frames 1-9 and
\* k, 10-k, k in frame 10 is accepted roll by roll, scores 10+k in every
\* frame and 10*(10+k) in total.
C6_AllSpares ==
    (k \in 1..9 /\ session # Null) =>
        /\ lastError = "none"
        /\ rollsRecorded = 21 =>
                /\ SparesPlayed(k)
                /\ \A i \in 0..9 : calculateFrameScore(session.frames, i) = 10 + k
                /\ calculateTotalScore(session.frames) = 10 * (10 + k)

C6_Witness == k = 7 /\ SparesPlayed(7) /\ calculateTotalScore(session.frames) = 170

\* C7: frame 10's score is the sum of pinsKnocked over all its recorded
\* rolls, with no strike or spare bonus.
C7_Frame10Sum ==
    session # Null =>
        calculateFrameScore(session.frames, 9) =
            SeqSum([r \in DOMAIN session.frames[9].rolls |->
                        session.frames[9].rolls[r].pinsKnocked])

\* strike, strike, and a third roll of 1..9 pins
C7_Witness ==
    /\ session # Null
    /\ rollCount(session.frames, 9) = 3
    /\ pinsOf(session.frames, 9, 0) = 10
    /\ pinsOf(session.frames, 9, 1) = 10
    /\ pinsOf(session.frames, 9, 2) \in 1..9
    /\ calculateFrameScore(session.frames, 9) = 20 + pinsOf(session.frames, 9, 2)

\* C8: the total score is the sum of the ten frame scores, and 0 for a
\* freshly started game.
C8_TotalIsSum ==
    session # Null =>
        LET F == session.frames
        IN  /\ calculateTotalScore(F) =
                    calculateFrameScore(F, 0) + calculateFrameScore(F, 1)
                  + calculateFrameScore(F, 2) + calculateFrameScore(F, 3)
                  + calculateFrameScore(F, 4) + calculateFrameScore(F, 5)
                  + calculateFrameScore(F, 6) + calculateFrameScore(F, 7)
                  + calculateFrameScore(F, 8) + calculateFrameScore(F, 9)
            /\ (\A i \in 0..9 : rollCount(F, i) = 0) => calculateTotalScore(F) = 0

\* rolls in frames 8, 9 and 10, each scoring
C8_Witness ==
    /\ session # Null
    /\ \A i \in 7..9 : calculateFrameScore(session.frames, i) > 0
    /\ calculateTotalScore(session.frames) > 20

\* C9: isGameComplete is false while frame 10 is empty; with a strike on its
\* first roll, true exactly with 3 rolls; else with its first two rolls
\* summing to 10, true exactly with 3 rolls; else true exactly with at least
\* 2 rolls.
C9_GameComplete ==
    session # Null =>
        LET F == session.frames
            n == rollCount(F, 9)
        IN  isGameComplete(session) =
                IF n = 0 THEN FALSE
                ELSE IF pinsOf(F, 9, 0) = 10 THEN n = 3
                ELSE IF n >= 2 /\ pinsOf(F, 9, 0) + pinsOf(F, 9, 1) = 10 THEN n = 3
                ELSE n >= 2

\* a frame-10 spare awaiting its bonus roll while frame 9 holds rolls
C9_Witness ==
    /\ session # Null
    /\ rollCount(session.frames, 8) > 0
    /\ rollCount(session.frames, 9) = 2
    /\ pinsOf(session.frames, 9, 0) \in 1..9
    /\ pinsOf(session.frames, 9, 0) + pinsOf(session.frames, 9, 1) = 10
    /\ ~isGameComplete(session)

\* C10: in every frame isStrike holds exactly when the first roll knocks 10
\* pins, isSpare exactly when there are two rolls, the first no strike, the
\* first two summing to 10; never both.
C10_Flags ==
    session # Null =>
        \A i \in 0..9 :
            LET F == session.frames
            IN  /\ F[i].isStrike = (rollCount(F, i) >= 1 /\ pinsOf(F, i, 0) = 10)
                /\ F[i].isSpare = (/\ rollCount(F, i) >= 2
                                   /\ pinsOf(F, i, 0) # 10
                                   /\ pinsOf(F, i, 0) + pinsOf(F, i, 1) = 10)
                /\ ~(F[i].isStrike /\ F[i].isSpare)

\* a frame whose first roll was corrected after its second was recorded (the
\* two share a knocked pin) and whose flags are both false, after a failed call
C10_Witness ==
    /\ session # Null
    /\ lastError # "none"
    /\ \E i \in 0..9 :
            /\ rollCount(session.frames, i) = 2
            /\ Knocked(session.frames[i].rolls[1].pins)
                    \cap Knocked(session.frames[i].rolls[2].pins) # {}
            /\ pinsOf(session.frames, i, 0) # 10
            /\ ~session.frames[i].isStrike
            /\ ~session.frames[i].isSpare

\* the traced call was a recordRoll and returned
acceptedRecordRoll == call'.op = "recordRoll" /\ lastError' = "none"

\* the traced call was a recordRoll and threw
failedRecordRoll == call'.op = "recordRoll" /\ lastError' # "none"

\* the number of "knocked" entries of a pin array, by filtering
knockedEntries(pins) == Len(SelectSeq(pins, LAMBDA e : e = "knocked"))

\* C11: every roll stored in the session has exactly 10 pin entries and
\* pinsKnocked equal to the number of knocked entries; right after an accepted
\* recordRoll(f, r, pins) the roll at index r of frame f holds the submitted
\* pins.
C11_StoredRoll ==
    [][ /\ session' # Null =>
            \A i \in 0..9 : \A j \in 1..Len(session'.frames[i].rolls) :
                LET roll == session'.frames[i].rolls[j]
                IN  /\ Len(roll.pins) = 10
                    /\ roll.pinsKnocked = knockedEntries(roll.pins)
        /\ acceptedRecordRoll =>
            /\ Len(session'.frames[call'.frameIndex].rolls) > call'.rollIndex
            /\ session'.frames[call'.frameIndex].rolls[call'.rollIndex + 1].pins
                    = call'.pins
      ]_vars

\* an accepted seven-pin second roll of frame 10, after a gutter ball
C11_Witness ==
    /\ call.op = "recordRoll" /\ lastError = "none"
    /\ call.frameIndex = 9 /\ call.rollIndex = 1
    /\ call.pins = Arr(1..7)
    /\ session.frames[9].rolls[2].pinsKnocked = 7
    /\ session.frames[9].rolls[1].pinsKnocked = 0

\* C12: every frame 1-9 holds at most 2 rolls and frame 10 at most 3.
C12_RollCaps ==
    session # Null =>
        /\ \A i \in 0..8 : rollCount(session.frames, i) <= 2
        /\ rollCount(session.frames, 9) <= 3

\* C13: no frame 1-9 whose first roll is a strike holds a second roll.
C13_NoRollAfterStrike ==
    session # Null =>
        \A i \in 0..8 :
            (rollCount(session.frames, i) >= 1 /\ pinsOf(session.frames, i, 0) = 10)
                => rollCount(session.frames, i) = 1

\* C14: frame 10 holds a third roll only if its first roll is a strike or its
\* first two rolls sum to 10.
C14_BonusRollEarned ==
    session # Null =>
        (rollCount(session.frames, 9) >= 3
            => \/ pinsOf(session.frames, 9, 0) = 10
               \/ pinsOf(session.frames, 9, 0) + pinsOf(session.frames, 9, 1) = 10)

\* the index (0-based) of the first roll made on the rack that roll j of the
\* frame is made on: the rack is fresh at frame start, after a roll knocking
\* all ten pins and, in frame 10, after a spare completed by the second roll
RECURSIVE rackStart(_, _, _)
rackStart(rolls, frameIndex, j) ==
    IF j = 0 THEN 0
    ELSE IF \/ rolls[j].pinsKnocked = 10
            \/ /\ frameIndex = 9 /\ j = 2
               /\ rolls[1].pinsKnocked + rolls[2].pinsKnocked = 10
         THEN j
         ELSE rackStart(rolls, frameIndex, j - 1)

\* the pins a rack has lost are closed under the dependency graph
satisfiesDependencies(knocked) ==
    \A n \in knocked :
        \/ Len(PIN_DEPENDENCIES[n]) = 0
        \/ \E g \in DOMAIN PIN_DEPENDENCIES[n] :
                \A j \in DOMAIN PIN_DEPENDENCIES[n][g] :
                    PIN_DEPENDENCIES[n][g][j] \in knocked

\* C15: in every frame the rolls made on the same rack knock pairwise disjoint
\* pin sets, and the union of those sets satisfies the pin-dependency graph.
C15_SameRack ==
    session # Null =>
        \A i \in 0..9 :
            LET rolls == session.frames[i].rolls
            IN  \A a \in 0..(Len(rolls) - 1) :
                    LET onRack == { b \in 0..a : rackStart(rolls, i, b) = rackStart(rolls, i, a) }
                    IN  /\ \A b \in onRack \ {a} :
                            Knocked(rolls[a + 1].pins) \cap Knocked(rolls[b + 1].pins) = {}
                        /\ satisfiesDependencies(
                                UNION { Knocked(rolls[b + 1].pins) : b \in onRack })

\* the traced recordRoll had a session, a frame index in 0..9, a 10-entry
\* pins array and a roll index past the frame's roll count
skippedAhead ==
    /\ call'.op = "recordRoll"
    /\ session # Null
    /\ call'.frameIndex \in 0..9
    /\ Len(call'.pins) = 10
    /\ call'.rollIndex > Len(session.frames[call'.frameIndex].rolls)

\* C16 as stated: with an active session, a frame index in 0..9 and a
\* 10-entry pins array, physically valid or not, recordRoll with rollIndex
\* greater than the frame's roll count always fails with the sequencing error
\* and records nothing.
C16_SequencingAlways ==
    [][ skippedAhead => (lastError' = "Sequencing" /\ session' = session) ]_vars

\* C16 amended: such a call records nothing; it fails with the sequencing
\* error when the pins are physically possible on a full rack, and with the
\* physics error when they are not.
C16_Sequencing ==
    [][ skippedAhead =>
            /\ session' = session
            /\ lastError' = IF satisfiesDependencies(Knocked(call'.pins))
                            THEN "Sequencing" ELSE "Physics"
      ]_vars

\* a physically valid roll jumping to index 2 of a frame holding one roll was
\* refused as out of sequence
C16_Witness ==
    /\ call.op = "recordRoll"
    /\ lastError = "Sequencing"
    /\ call.pins = Arr(1..7)
    /\ call.rollIndex = 2
    /\ call.frameIndex \in 0..9
    /\ Len(session.frames[call.frameIndex].rolls) = 1

BoundsErrors == {"InvalidFrame", "InvalidRollIndex", "InvalidPins"}

\* C17: recordRoll fails with the no-session error whenever no session is
\* active, whatever its arguments; with a session it fails with a bounds
\* error when frameIndex is outside 0..9, rollIndex is negative or pins does
\* not have exactly 10 entries; calculateFrameScore and calculateTotalScore
\* fail with the no-session error without a session, and calculateFrameScore
\* with a bounds error for frameIndex outside 0..9.
C17_Preconditions ==
    [][ /\ call'.op = "recordRoll" =>
            /\ session = Null => lastError' = "NoSession"
            /\ (/\ session # Null
                /\ \/ call'.frameIndex \notin 0..9
                   \/ call'.rollIndex < 0
                   \/ Len(call'.pins) # 10)
                    => lastError' \in BoundsErrors
        /\ call'.op = "calculateFrameScore" =>
            /\ session = Null => lastError' = "NoSession"
            /\ (session # Null /\ call'.frameIndex \notin 0..9)
                    => lastError' = "InvalidFrame"
        /\ call'.op = "calculateTotalScore" =>
            (session = Null => lastError' = "NoSession")
      ]_vars

\* a 9-entry pins array was refused at a valid frame and roll index of a
\* session holding rolls
C17_Witness ==
    /\ call.op = "recordRoll"
    /\ session # Null
    /\ call.frameIndex = 9 /\ call.rollIndex = 1
    /\ Len(call.pins) = 9
    /\ Len(session.frames[9].rolls) = 1
    /\ lastError = "InvalidPins"

\* C18 as stated: with no active session recordRoll, calculateFrameScore,
\* calculateTotalScore and isGameComplete all raise the no-session error.
C18_AllRequireSession ==
    [][ (/\ session = Null
         /\ call'.op \in {"recordRoll", "calculateFrameScore",
                          "calculateTotalScore", "isGameComplete"})
            => lastError' = "NoSession" ]_vars

\* C18 amended: with no active session recordRoll, calculateFrameScore and
\* calculateTotalScore raise the no-session error, whatever their arguments;
\* isGameComplete raises nothing and returns false.
C18_RequireSession ==
    [][ session = Null =>
            /\ call'.op \in {"recordRoll", "calculateFrameScore",
                             "calculateTotalScore"}
                    => (lastError' = "NoSession" /\ session' = Null)
            /\ call'.op = "isGameComplete"
                    => (lastError' = "none" /\ call'.result = FALSE
                            /\ session' = Null)
      ]_vars

\* calculateFrameScore was called with an out-of-range index before any
\* startNewGame
C18_Witness ==
    /\ session = Null
    /\ call.op = "calculateFrameScore"
    /\ call.frameIndex = 10
    /\ lastError = "NoSession"

\* C19: a recordRoll call that fails, for any reason, leaves the session
\* unchanged: every frame's rolls and flags are as before the call.
C19_FailureRecordsNothing ==
    [][ failedRecordRoll => session' = session ]_vars

\* a strike was refused by the physics validation as the second roll of a
\* frame whose first roll knocked seven pins
C19_Witness ==
    /\ call.op = "recordRoll"
    /\ lastError = "Physics"
    /\ call.pins = Strike
    /\ call.rollIndex = 1
    /\ Len(session.frames[call.frameIndex].rolls) = 1
    /\ session.frames[call.frameIndex].rolls[1].pins = Arr(1..7)

\* C20: an accepted recordRoll(f, r, pins) with r equal to frame f's roll
\* count appends the roll (count grows by 1, earlier rolls unchanged); with r
\* less than the count it overwrites exactly the roll at index r (count and
\* the other rolls unchanged); the frame's flags follow the new rolls, and a
\* lone strike corrected to a 7-pin roll leaves isStrike false and a frame
\* score of 7.
C20_AppendOrOverwrite ==
    [][ acceptedRecordRoll =>
            LET f      == call'.frameIndex
                r      == call'.rollIndex
                old    == session.frames[f].rolls
                new    == session'.frames[f].rolls
                first  == knockedEntries(new[1].pins)
            IN  /\ r = Len(old) =>
                    /\ Len(new) = Len(old) + 1
                    /\ \A j \in 1..Len(old) : new[j] = old[j]
                /\ r < Len(old) =>
                    /\ Len(new) = Len(old)
                    /\ \A j \in 1..Len(old) : j # r + 1 => new[j] = old[j]
                /\ r <= Len(old)
                /\ new[r + 1].pins = call'.pins
                /\ session'.frames[f].isStrike = (first = 10)
                /\ session'.frames[f].isSpare =
                        (/\ first # 10 /\ Len(new) >= 2
                         /\ first + knockedEntries(new[2].pins) = 10)
                /\ (/\ r = 0 /\ Len(old) = 1
                    /\ knockedEntries(old[1].pins) = 10
                    /\ knockedEntries(call'.pins) = 7)
                        => /\ ~session'.frames[f].isStrike
                           /\ calculateFrameScore(session'.frames, f) = 7
      ]_vars

\* the first roll of a frame holding two rolls was overwritten with a
\* seven-pin roll
C20_Witness ==
    /\ call.op = "recordRoll" /\ lastError = "none"
    /\ call.rollIndex = 0
    /\ call.pins = Arr(1..7)
    /\ Len(session.frames[call.frameIndex].rolls) = 2
    /\ ~session.frames[call.frameIndex].isStrike

\* the pins knocked by the roll the validation looks back to, as C21 states
\* it, for roll index r (0-based, at most the roll count) of a frame
knockedBefore(rolls, frameIndex, r) ==
    IF r = 0 THEN {}
    ELSE IF frameIndex = 9
            /\ \/ Cardinality(Knocked(rolls[r].pins)) = 10
               \/ /\ r = 2
                  /\ Cardinality(Knocked(rolls[1].pins))
                        + Cardinality(Knocked(rolls[2].pins)) = 10
         THEN {}
         ELSE Knocked(rolls[r].pins)

\* C21: recordRoll validates pins against an effective previous roll: none
\* at roll index 0; in frame 10 none when the roll before knocked 10 pins or
\* when the index is 2 and the first two rolls sum to 10; else the roll
\* before.  So in frame 10 a second strike after a strike and any valid
\* first-roll combination after a spare are accepted.
C21_EffectivePreviousRoll ==
    [][ (/\ call'.op = "recordRoll"
         /\ session # Null
         /\ call'.rollIndex <= Len(session.frames[call'.frameIndex].rolls))
        =>
            LET f     == call'.frameIndex
                r     == call'.rollIndex
                rolls == session.frames[f].rolls
                new   == Knocked(call'.pins)
                prev  == knockedBefore(rolls, f, r)
            IN  /\ lastError' \in {"none", "Physics"}
                /\ (lastError' = "none")
                        = (new \cap prev = {}
                            /\ satisfiesDependencies(new \cup prev))
                /\ (/\ f = 9 /\ r = 1 /\ rolls[1].pinsKnocked = 10
                    /\ call'.pins = Strike) => lastError' = "none"
                /\ (/\ f = 9 /\ r = 2
                    /\ rolls[1].pinsKnocked + rolls[2].pinsKnocked = 10
                    /\ satisfiesDependencies(new)) => lastError' = "none"
      ]_vars

\* a strike accepted as the third roll of frame 10 after the spare of the
\* head pin and the nine pins behind it
C21_Witness ==
    /\ call.op = "recordRoll" /\ lastError = "none"
    /\ call.frameIndex = 9 /\ call.rollIndex = 2
    /\ call.pins = Strike
    /\ Len(session.frames[9].rolls) = 3
    /\ session.frames[9].rolls[1].pins = Arr({1})
    /\ session.frames[9].rolls[2].pins = Arr(PinNumbers \ {1})
    /\ session.frames[9].rolls[3].pins = Strike

\* the elements of a sequence
Range(xs) == { xs[i] : i \in DOMAIN xs }

\* C22: validatePinCombination(pins, previousRoll) is invalid whenever pins
\* marks knocked a pin already knocked in previousRoll, and invalidPins holds
\* each such pin; at the engine a second roll of a frame 1-9 that overlaps
\* the frame's first roll is rejected.
C22_ReKnockRejected ==
    /\ (/\ call.op = "validatePinCombination"
        /\ Len(call.pins) = 10
        /\ call.previousRoll # Undefined)
            => \A n \in Knocked(call.pins) \cap Knocked(call.previousRoll.pins) :
                    /\ ~call.result.isValid
                    /\ n \in Range(call.result.invalidPins)
    /\ (/\ call.op = "recordRoll" /\ call.rollIndex = 1
        /\ Len(call.pins) = 10
        /\ Knocked(call.pins) \cap Knocked(session.frames[0].rolls[1].pins) # {})
            => /\ lastError = "Physics"
               /\ Len(session.frames[0].rolls) = 1

\* pins 2 and 3 were refused by the engine as the second roll of frame 1
\* after a first roll knocking pins 1 and 2
C22_Witness ==
    /\ call.op = "recordRoll" /\ call.rollIndex = 1
    /\ call.pins = Arr({2, 3})
    /\ session # Null
    /\ Len(session.frames[0].rolls) = 1
    /\ session.frames[0].rolls[1].pins = Arr({1, 2})
    /\ lastError = "Physics"

\* the dependency groups of a pin as C23 lists them
requiredBy(n) ==
    CASE n = 1 -> {}
      [] n \in {2, 3, 5} -> { {1} }
      [] n = 4 -> { {1}, {2} }
      [] n = 6 -> { {1}, {3} }
      [] n = 7 -> { {4} }
      [] n = 8 -> { {5} }
      [] n \in {9, 10} -> { {6} }

\* every knocked pin has no group or a group knocked entirely
reachable(knocked) ==
    \A n \in knocked :
        requiredBy(n) = {} \/ \E group \in requiredBy(n) : group \subseteq knocked

\* C23: with no previous roll validatePinCombination(pins) is valid exactly
\* when every knocked pin has no dependency group or a group knocked
\* entirely, under the graph 2,3,5<-1; 4<-1 or 2; 6<-1 or 3; 7<-4; 8<-5;
\* 9,10<-6; pin 7 alone is rejected, {1,4,7}, all standing and all knocked
\* are accepted.
C23_DependencyGraph ==
    (/\ call.op = "validatePinCombination"
     /\ Len(call.pins) = 10
     /\ call.previousRoll = Undefined)
        => /\ call.result.isValid = reachable(Knocked(call.pins))
           /\ call.pins = Arr({7}) => ~call.result.isValid
           /\ call.pins \in {Arr({1, 4, 7}), AllStanding, Strike}
                => call.result.isValid

\* pins 4 and 7 with pin 2 before them were refused without a previous roll:
\* pin 2 has lost its head pin
C23_Witness ==
    /\ call.op = "validatePinCombination"
    /\ call.previousRoll = Undefined
    /\ call.pins = Arr({2, 4, 7})
    /\ ~call.result.isValid
    /\ call.result.invalidPins = <<2>>

\* C24: for every 10-entry pins array and every previous roll,
\* validatePinCombination(pins, previousRoll).isValid holds exactly when the
\* two share no knocked pin and isPhysicallyPossible of the union of the two
\* knocked sets is true.
C24_UnionValid ==
    (/\ call.op = "validatePinCombination"
     /\ Len(call.pins) = 10
     /\ call.previousRoll # Undefined)
        => call.result.isValid
            = (/\ Knocked(call.pins) \cap Knocked(call.previousRoll.pins) = {}
               /\ isPhysicallyPossible(
                    Arr(Knocked(call.pins) \cup Knocked(call.previousRoll.pins))))

\* pins 2 and 4 were accepted after a previous roll of the head pin, though
\* impossible on a full rack
C24_Witness ==
    /\ call.op = "validatePinCombination"
    /\ call.previousRoll # Undefined
    /\ call.previousRoll.pins = Arr({1})
    /\ call.pins = Arr({2, 4})
    /\ call.result.isValid
    /\ ~isPhysicallyPossible(call.pins)

\* C25: for every pins array, of 10 entries or not, isPhysicallyPossible(pins)
\* equals validatePinCombination(pins).isValid with no previous roll.
C25_PossibleIsValid ==
    call.op = "isPhysicallyPossible"
        => call.result = validatePinCombination(call.pins, Undefined).isValid

\* isPhysicallyPossible refused an 11-entry array with no pin knocked
C25_Witness ==
    /\ call.op = "isPhysicallyPossible"
    /\ Len(call.pins) = 11
    /\ Knocked(call.pins) = {}
    /\ call.result = FALSE

\* C26: validatePinCombination on an array whose length is not 10 yields
\* isValid false, the single fixed error and no invalid pins; on 10 entries
\* isValid holds exactly when errors is empty, exactly when invalidPins is
\* empty; invalidPins holds pin numbers in 1..10 without duplicates; with no
\* previous roll each of them is knocked in pins; getInvalidPins returns the
\* same list.
C26_ValidationResult ==
    /\ call.op = "validatePinCombination" =>
            LET result == call.result
            IN  IF Len(call.pins) # 10
                THEN /\ ~result.isValid
                     /\ Len(result.errors) = 1
                     /\ result.errors[1][1] = "length"
                     /\ result.invalidPins = <<>>
                ELSE /\ result.isValid = (Len(result.errors) = 0)
                     /\ result.isValid = (Len(result.invalidPins) = 0)
                     /\ Range(result.invalidPins) \subseteq 1..10
                     /\ Cardinality(Range(result.invalidPins))
                            = Len(result.invalidPins)
                     /\ call.previousRoll = Undefined
                            => Range(result.invalidPins) \subseteq Knocked(call.pins)
    /\ call.op = "getInvalidPins" =>
            call.result
                = validatePinCombination(call.pins, call.previousRoll).invalidPins

\* getInvalidPins named pin 2 once, though it fails twice: knocked again
\* after a previous roll that knocked it without the head pin
C26_Witness ==
    /\ call.op = "getInvalidPins"
    /\ call.previousRoll # Undefined
    /\ call.previousRoll.pins = Arr({2})
    /\ call.pins = Arr({2})
    /\ call.result = <<2>>

\* C27: startNewGame, called in any engine state, installs a session of
\* exactly 10 frames numbered 1..10, each without rolls and with both flags
\* false, with the given mode and league, and discards the rolls of the
\* previous session; right after it calculateTotalScore() is 0 and
\* isGameComplete() is false.
C27_StartNewGame ==
    [][ call'.op = "startNewGame" =>
            /\ lastError' = "none"
            /\ session' # Null
            /\ DOMAIN session'.frames = 0..9
            /\ \A i \in 0..9 :
                    session'.frames[i]
                        = [frameNumber |-> i + 1, rolls |-> <<>>,
                           isStrike |-> FALSE, isSpare |-> FALSE]
            /\ session'.mode = call'.mode
            /\ session'.league = call'.league
            /\ call'.result = session'
            /\ calculateTotalScoreError(session') = "none"
            /\ calculateTotalScore(session'.frames) = 0
            /\ ~isGameComplete(session')
      ]_vars

\* a league game was started
C27_Witness ==
    /\ call.op = "startNewGame"
    /\ call.mode = "league" /\ call.league = "league1"
    /\ session # Null
    /\ session.mode = "league" /\ session.league = "league1"
    /\ \A i \in 0..9 : Len(session.frames[i].rolls) = 0

\* C28: once a session exists, after every engine operation it has exactly
\* 10 frames and frame i (0-based) keeps frameNumber i + 1; recordRoll never
\* adds, removes or reorders frames.
C28_TenFrames ==
    [][ /\ session # Null => session' # Null
        /\ session' # Null =>
                /\ DOMAIN session'.frames = 0..9
                /\ \A i \in 0..9 : session'.frames[i].frameNumber = i + 1
        /\ (call'.op = "recordRoll" /\ session # Null) =>
                \A i \in 0..9 :
                    i # call'.frameIndex => session'.frames[i] = session.frames[i]
      ]_vars

\* a roll was recorded in frame 10 of a session holding a roll in frame 1
C28_Witness ==
    /\ call.op = "recordRoll" /\ lastError = "none"
    /\ call.frameIndex = 9
    /\ Len(session.frames[0].rolls) = 1
    /\ Len(session.frames[9].rolls) = 1
    /\ session.frames[9].frameNumber = 10

Queries ==
    {"calculateFrameScore", "calculateTotalScore", "isGameComplete",
     "validateGameState"}

\* C29: calculateFrameScore, calculateTotalScore, isGameComplete and
\* validateGameState leave the session unchanged, and each returns what it
\* returns when called alone on that state, whichever query preceded it.
C29_QueriesReadOnly ==
    [][ call'.op \in Queries =>
            /\ session' = session
            /\ call'.op = "calculateFrameScore" =>
                    /\ lastError' = calculateFrameScoreError(session', call'.frameIndex)
                    /\ lastError' = "none" =>
                            call'.result
                                = calculateFrameScore(session'.frames, call'.frameIndex)
            /\ call'.op = "calculateTotalScore" =>
                    /\ lastError' = calculateTotalScoreError(session')
                    /\ lastError' = "none" =>
                            call'.result = calculateTotalScore(session'.frames)
            /\ call'.op = "isGameComplete" =>
                    call'.result = isGameComplete(session')
            /\ call'.op = "validateGameState" =>
                    call'.result = validateGameState(session')
            /\ (call.op = call'.op /\ call.frameIndex = call'.frameIndex) =>
                    (call'.result = call.result /\ lastError' = lastError)
      ]_vars

\* isGameComplete answered true on a session whose frame 10 holds two gutter
\* balls, and the session is still there
C29_Witness ==
    /\ call.op = "isGameComplete"
    /\ call.result = TRUE
    /\ session # Null
    /\ Len(session.frames[9].rolls) = 2
    /\ session.frames[9].rolls[1].pinsKnocked = 0

\* C30: validateGameState never raises: with no active session it returns
\* isValid false with the error 'No active game session'; with a session
\* isValid is true exactly when the error list is empty, and a freshly
\* started game is valid with no errors.
C30_ValidateGameState ==
    [][ call'.op = "validateGameState" =>
            /\ lastError' = "none"
            /\ session = Null =>
                    /\ call'.result.isValid = FALSE
                    /\ call'.result.errors = << <<"No active game session">> >>
            /\ session # Null =>
                    call'.result.isValid = (Len(call'.result.errors) = 0)
            /\ (session # Null /\ \A i \in 0..9 : Len(session.frames[i].rolls) = 0)
                    => (call'.result.isValid /\ call'.result.errors = <<>>)
      ]_vars

\* validateGameState reported the second roll recorded after a strike in
\* frame 1
C30_Witness ==
    /\ call.op = "validateGameState"
    /\ lastError = "none"
    /\ session # Null
    /\ Len(session.frames[0].rolls) = 2
    /\ session.frames[0].isStrike
    /\ ~call.result.isValid
    /\ call.result.errors = << <<"strikeOneRoll", 1>> >>

\* C31 as stated: once isGameComplete() has returned true, it returns true
\* after every later recordRoll on that session.
C31_CompleteForever ==
    [][ (call'.op = "recordRoll" /\ isGameComplete(session))
            => isGameComplete(session') ]_vars

\* C31 amended: once isGameComplete() has returned true, it returns true
\* after every later recordRoll that fails or that addresses one of the
\* frames 1-9; only startNewGame and an accepted recordRoll on frame 10 can
\* leave Complete.
C31_CompleteUnlessFrame10 ==
    [][ (/\ call'.op = "recordRoll"
         /\ isGameComplete(session)
         /\ (lastError' # "none" \/ call'.frameIndex # 9))
            => isGameComplete(session') ]_vars

\* the head pin was recorded as the first roll of frame 9 in a game completed
\* by two gutter balls in frame 10, and the game is still complete
C31_Witness ==
    /\ call.op = "recordRoll" /\ lastError = "none"
    /\ call.frameIndex = 8 /\ call.rollIndex = 0
    /\ call.pins = Arr({1})
    /\ Len(session.frames[8].rolls) = 1
    /\ Len(session.frames[9].rolls) = 2
    /\ session.frames[9].rolls[1].pinsKnocked = 0
    /\ session.frames[9].rolls[2].pinsKnocked = 0
    /\ isGameComplete(session)

\* C39: an accepted recordRoll that appends a roll (rollIndex equal to the
\* frame's roll count) never decreases calculateFrameScore(i) for any frame i
\* nor calculateTotalScore().
C39_AppendNeverLowers ==
    [][ (/\ acceptedRecordRoll
         /\ call'.rollIndex = Len(session.frames[call'.frameIndex].rolls))
            => /\ \A i \in 0..9 :
                    calculateFrameScore(session'.frames, i)
                        >= calculateFrameScore(session.frames, i)
               /\ calculateTotalScore(session'.frames)
                        >= calculateTotalScore(session.frames)
      ]_vars

\* a gutter ball was appended to frame 10 as its second roll, after the head
\* pin, behind a strike in frame 9 whose bonus it completes
C39_Witness ==
    /\ call.op = "recordRoll" /\ lastError = "none"
    /\ call.frameIndex = 9 /\ call.rollIndex = 1
    /\ call.pins = AllStanding
    /\ Len(session.frames[9].rolls) = 2
    /\ session.frames[9].rolls[1].pinsKnocked = 1
    /\ Len(session.frames[8].rolls) = 1
    /\ session.frames[8].isStrike
    /\ calculateFrameScore(session.frames, 8) = 11

\* C37: for every session state, frame index f in 0..9, roll index r with
\* 0 <= r <= frame f's roll count and 10-entry pins array,
\* validatePinPhysics(pins, f, r).isValid is true exactly when
\* recordRoll(f, r, pins) is accepted; validatePinPhysics never changes the
\* session.
C37_PreValidationAgrees ==
    [][ call'.op = "validatePinPhysics"
            => /\ session' = session
               /\ (/\ session # Null
                   /\ call'.frameIndex \in 0..9
                   /\ call'.rollIndex
                        <= Len(session.frames[call'.frameIndex].rolls)
                   /\ Len(call'.pins) = 10)
                      => /\ lastError' = "none"
                         /\ call'.result.isValid
                              = (recordRollError(session, call'.frameIndex,
                                     call'.rollIndex, call'.pins) = "none")
      ]_vars

\* validatePinPhysics accepted a strike as the third roll of frame 10 after a
\* spare made of the head pin and the nine other pins
C37_Witness ==
    /\ call.op = "validatePinPhysics" /\ lastError = "none"
    /\ call.frameIndex = 9 /\ call.rollIndex = 2 /\ call.pins = Strike
    /\ call.result.isValid
    /\ Len(session.frames[9].rolls) = 2
    /\ session.frames[9].rolls[1].pins = Arr({1})
    /\ session.frames[9].rolls[2].pins = Arr(PinNumbers \ {1})
    /\ recordRollError(session, 9, 2, Strike) = "none"

\* C34: every state reachable through startNewGame and recordRoll alone
\* (appends and corrections) is reported valid by validateGameState.
C34_ReachableValid ==
    session # Null => validateGameState(session).isValid

\* C40: in every state reachable through startNewGame and recordRoll,
\* calculateTotalScore() lies between 0 and 300 and calculateFrameScore(i)
\* lies between 0 and 30 for every frame i.
C40_ScoreRange ==
    session # Null
        => /\ calculateTotalScore(session.frames) \in 0..300
           /\ \A i \in 0..9 : calculateFrameScore(session.frames, i) \in 0..30

\* C35: an accepted recordRoll(f, r, pins) changes only frame f: the rolls and
\* isStrike/isSpare flags of every other frame, and the session's id, mode,
\* league and start time, are unchanged.
C35_OnlyFrameWritten ==
    [][ acceptedRecordRoll
            => /\ \A i \in (0..9) \ {call'.frameIndex} :
                    session'.frames[i] = session.frames[i]
               /\ DOMAIN session'.frames = DOMAIN session.frames
               /\ session'.id = session.id
               /\ session'.mode = session.mode
               /\ session'.league = session.league
               /\ session'.startTime = session.startTime
      ]_vars

\* seven pins were recorded in frame 1 of a league game whose frame 10 holds
\* a strike, still flagged
C35_Witness ==
    /\ call.op = "recordRoll" /\ lastError = "none"
    /\ call.frameIndex = 0 /\ call.rollIndex = 0 /\ call.pins = Arr(1..7)
    /\ session.frames[0].rolls[1].pinsKnocked = 7
    /\ Len(session.frames[9].rolls) = 1
    /\ session.frames[9].isStrike
    /\ session.mode = "league"

\* the session with the given frame put in place of every frame but frame f
withOtherFrames(s, f, frame) ==
    [s EXCEPT !.frames =
        [i \in DOMAIN s.frames |->
            IF i = f THEN s.frames[f] ELSE [frame EXCEPT !.frameNumber = i + 1]]]

\* a frame holding one strike
struckFrame ==
    [frameNumber |-> 1, rolls |-> << [pins |-> Strike, pinsKnocked |-> 10] >>,
     isStrike |-> TRUE, isSpare |-> FALSE]

\* C36: whether recordRoll(f, r, pins) is accepted, and with which error it
\* fails, depends only on frame f's current rolls and the arguments, never on
\* other frames: the outcome is the one the call has with every other frame
\* empty and with every other frame holding a strike; and a first roll of 10
\* entries is accepted in any frame 0..9 that holds no roll exactly when it is
\* physically valid against a full rack.
C36_OutcomeFromOwnFrame ==
    [][ (call'.op = "recordRoll" /\ session # Null /\ call'.frameIndex \in 0..9)
            => /\ lastError' = recordRollError(
                        withOtherFrames(session, call'.frameIndex, emptyFrame(0)),
                        call'.frameIndex, call'.rollIndex, call'.pins)
               /\ lastError' = recordRollError(
                        withOtherFrames(session, call'.frameIndex, struckFrame),
                        call'.frameIndex, call'.rollIndex, call'.pins)
               /\ (/\ call'.rollIndex = 0
                   /\ Len(session.frames[call'.frameIndex].rolls) = 0
                   /\ Len(call'.pins) = 10)
                      => (lastError' = "none")
                            = reachable(Knocked(call'.pins))
      ]_vars

\* seven pins were accepted as the first roll of frame 10 while frames 1-9 are
\* empty
C36_Witness ==
    /\ call.op = "recordRoll" /\ lastError = "none"
    /\ call.frameIndex = 9 /\ call.rollIndex = 0 /\ call.pins = Arr(1..7)
    /\ Len(session.frames[9].rolls) = 1
    /\ \A i \in 0..8 : Len(session.frames[i].rolls) = 0

\* the conditions under which a non-empty frame is in error, as C33 lists them
flagged(frameIndex, rolls) ==
    LET n    == Len(rolls)
        c(i) == rolls[i].pinsKnocked
    IN  \/ \E i \in 1..n : c(i) \notin 0..10
        \/ IF frameIndex = 9 THEN n > 3 ELSE n > 2
        \/ /\ frameIndex # 9
           /\ \/ c(1) = 10 /\ n > 1
              \/ c(1) # 10 /\ n >= 2 /\ c(1) + c(2) > 10
        \/ /\ frameIndex = 9
           /\ \/ c(1) # 10 /\ n >= 2 /\ c(1) + c(2) > 10
              \/ n = 3 /\ c(1) # 10 /\ c(1) + c(2) # 10
              \/ n >= 3 /\ c(1) = 10 /\ c(2) # 10 /\ c(2) + c(3) > 10

\* C33: validateGameState reports an error exactly when some non-empty frame
\* has one of: a roll with pinsKnocked outside 0..10; more than 2 rolls
\* (frames 1-9) or more than 3 (frame 10); in frames 1-9 a strike first roll
\* with a further roll, or a non-strike first roll whose first two rolls total
\* more than 10; in frame 10 a non-strike first roll with first two rolls
\* totalling more than 10, three rolls whose first two are neither strike nor
\* spare, or a strike first roll, non-strike second roll and second+third
\* totalling more than 10.
C33_ErrorsExactlyWhenFlagged ==
    (call.op = "validateGameState" /\ session # Null)
        => /\ (Len(call.result.errors) > 0)
                = (\E f \in 0..9 :
                        /\ Len(session.frames[f].rolls) > 0
                        /\ flagged(f, session.frames[f].rolls))
           /\ call.result.isValid = (Len(call.result.errors) = 0)

\* validateGameState reported the one error of a frame 10 holding a strike,
\* then 7 and 7, beside a spare of 3 and 7 in frame 1 that it accepts
C33_Witness ==
    /\ call.op = "validateGameState" /\ session # Null
    /\ Len(session.frames[9].rolls) = 3
    /\ session.frames[9].rolls[1].pinsKnocked = 10
    /\ session.frames[9].rolls[2].pinsKnocked = 7
    /\ session.frames[9].rolls[3].pinsKnocked = 7
    /\ Len(session.frames[0].rolls) = 0
    /\ call.result.errors = << <<"secondThirdExceed", 14>> >>
    /\ ~call.result.isValid

\* C38: every pin combination accepted against a full rack that knocks at
\* least one pin knocks pin 1; hence in every reachable state, every frame's
\* first roll with pinsKnocked > 0 has pin 1 knocked, also after corrections.
C38_HeadPinFirst ==
    /\ (/\ call.op = "validatePinCombination"
        /\ call.previousRoll = Undefined
        /\ call.result.isValid
        /\ Len(call.pins) = 10
        /\ Knocked(call.pins) # {})
            => 1 \in Knocked(call.pins)
    /\ session # Null
            => \A f \in 0..9 :
                    (/\ Len(session.frames[f].rolls) > 0
                     /\ session.frames[f].rolls[1].pinsKnocked > 0)
                        => session.frames[f].rolls[1].pins[1] = "knocked"

\* the first roll of frame 1, pins 1 and 2, was corrected to pins 1, 3, 6
\* and 10
C38_Witness ==
    /\ call.op = "recordRoll" /\ call.rollIndex = 0 /\ lastError = "none"
    /\ call.previousRoll.pins = Arr({1, 2})
    /\ call.pins = Arr({1, 3, 6, 10})
    /\ Len(session.frames[0].rolls) = 1
    /\ session.frames[0].rolls[1].pins = call.pins
    /\ session.frames[0].rolls[1].pinsKnocked = 4

====
